---- MODULE Spec2Model ----
(***************************************************************************)
(* State-machine model of server.py: a static-file HTTP server on port     *)
(* 8000 whose request handler, NoCacheHTTPRequestHandler, overrides        *)
(* end_headers to add three anti-cache headers.  The behaviour inherited   *)
(* from http.server (request parsing, send_head, send_error, the headers   *)
(* buffer) and from socketserver.TCPServer (the accept loop) is modelled   *)
(* as the CPython library computes it, at the point where server.py        *)
(* inherits or calls it.                                                   *)
(***************************************************************************)
EXTENDS Integers, Sequences, FiniteSets, TLC

VARIABLES
    pc,         \* position of the module-level script: chdir, bind, print, serve_forever, exited
    exit,       \* why the process ended ("none" while it runs)
    launch,     \* the launch environment: working directory and the script path as given
    cwd,        \* the process's working directory (a sequence of directory names)
    listening,  \* the listening socket on port PORT is bound
    stdout,     \* the lines written to standard output
    backlog,    \* clients connected to the port and not yet accepted
    loop,       \* serve_forever: "select" (waiting) or "finish_request" (inside a handler)
    inflight,   \* connections accepted whose handler has not returned
    conn        \* the connection being handled: stage, the request read, the bytes written

vars == <<pc, exit, launch, cwd, listening, stdout, backlog, loop, inflight, conn>>

----------------------------------------------------------------------------
(* Bounds of the model *)

\* longest request path, in components
MaxPathLen == 2
\* most clients waiting in the listen queue at once
MaxBacklog == 2

PORT == 8000

----------------------------------------------------------------------------
(* Paths: a path is a sequence of names; posixpath.normpath and friends. *)

RECURSIVE normparts(_, _)
\* posixpath.normpath on the components of an absolute path: "." and empty
\* components vanish, ".." removes the component before it (none at the root).
normparts(parts, acc) ==
    IF parts = <<>> THEN acc
    ELSE LET w == Head(parts) IN
         IF w = "." \/ w = "" THEN normparts(Tail(parts), acc)
         ELSE IF w = ".."
              THEN normparts(Tail(parts),
                             IF acc = <<>> THEN acc ELSE SubSeq(acc, 1, Len(acc) - 1))
              ELSE normparts(Tail(parts), Append(acc, w))

\* os.path.abspath(__file__): an absolute path is normalised, a relative one is
\* joined to the working directory first.
abspath(f, dir) ==
    IF f.abs THEN normparts(f.parts, <<>>) ELSE normparts(dir \o f.parts, <<>>)

\* os.path.dirname of a normalised absolute path.
dirname(p) == IF p = <<>> THEN p ELSE SubSeq(p, 1, Len(p) - 1)

\* The file system outside the served tree: the script is /srv/app/server.py.
ScriptFile == <<"srv", "app", "server.py">>
ScriptDir == <<"srv", "app">>

\* The ways the interpreter can be started on the script: from which directory,
\* with which spelling of the script's path (__file__).
Launches ==
    { [dir |-> <<"srv">>,            file |-> [abs |-> FALSE, parts |-> <<"app", "server.py">>]],
      [dir |-> <<"srv", "app">>,     file |-> [abs |-> FALSE, parts |-> <<"server.py">>]],
      [dir |-> <<"home", "dev">>,    file |-> [abs |-> TRUE,  parts |-> <<"srv", "app", "server.py">>]],
      [dir |-> <<"srv", "app", "docs">>, file |-> [abs |-> FALSE, parts |-> <<"..", "server.py">>]] }

----------------------------------------------------------------------------
(* The served tree: the files of the script's directory, as the handler's   *)
(* os.path and open calls see them.                                         *)

Dirs ==
    { <<>>, <<"srv">>, <<"home">>, <<"home", "dev">>,
      ScriptDir, ScriptDir \o <<"docs">>, ScriptDir \o <<"locked">> }

\* regular files and their bytes
FileBytes ==
    (ScriptDir \o <<"index.html">>         :> <<60, 105, 62>>) @@
    (ScriptDir \o <<"app.css">>            :> <<97, 123, 125, 10>>) @@
    (ScriptDir \o <<"server.py">>          :> <<35, 33>>) @@
    (ScriptDir \o <<"secret">>             :> <<120>>) @@
    (ScriptDir \o <<"docs", "app.css">>    :> <<98>>)

\* files open() refuses (no read permission) and directories os.listdir() refuses
Unreadable == { ScriptDir \o <<"secret">> }
Unlistable == { ScriptDir \o <<"locked">> }

isdir(p) == p.parts \in Dirs
\* a trailing slash on a regular file's name is ENOTDIR
isfile(p) == p.parts \in DOMAIN FileBytes /\ ~p.slash
canopen(p) == isfile(p) /\ p.parts \notin Unreadable

\* os.listdir, sorted as list_directory sorts it
listdir(parts) ==
    IF parts = ScriptDir \o <<"docs">> THEN <<"app.css">>
    ELSE IF parts = ScriptDir THEN <<"app.css", "docs", "index.html", "locked", "secret", "server.py">>
    ELSE <<>>

\* mimetypes by extension, as guess_type uses them
guess_type(parts) ==
    LET name == parts[Len(parts)] IN
    IF name \in {"index.html", "index.htm"} THEN "text/html"
    ELSE IF name = "app.css" THEN "text/css"
    ELSE IF name = "server.py" THEN "text/x-python"
    ELSE "application/octet-stream"

\* str(n) of a file size (the served files are shorter than ten bytes)
str(n) ==
    CASE n = 0 -> "0" [] n = 1 -> "1" [] n = 2 -> "2" [] n = 3 -> "3" [] n = 4 -> "4"
      [] n = 5 -> "5" [] n = 6 -> "6" [] n = 7 -> "7" [] n = 8 -> "8" [] n = 9 -> "9"

----------------------------------------------------------------------------
(* Requests: what a client can put on a connection. *)

Names == {"app.css", "docs", "secret", "locked", "nope", ".."}
Commands == {"GET", "HEAD", "POST"}
Versions == {"HTTP/1.0", "HTTP/1.1", "HTTP/0.9", "HTTP/2.0", "HTTP/x"}
RECURSIVE SeqsUpTo(_, _)
SeqsUpTo(S, n) ==
    IF n = 0 THEN { <<>> }
    ELSE LET shorter == SeqsUpTo(S, n - 1) IN
         shorter \cup { Append(q, x) : q \in { r \in shorter : Len(r) = n - 1 }, x \in S }

\* request targets: "/" followed by up to MaxPathLen names, with or without a final "/"
Targets ==
    { [parts |-> q, slash |-> s] : q \in SeqsUpTo(Names, MaxPathLen), s \in BOOLEAN }
        \ { [parts |-> <<>>, slash |-> FALSE] }

Root == [parts |-> <<>>, slash |-> TRUE]

\* raw: "eof" the client closed without sending; "toolong" a request line over
\* 65536 bytes; "line" a request line of nwords words: command, target, (extra,)
\* version.  hdr: the header block parses, or a line of it is too long, or it has
\* too many lines.  ims: If-Modified-Since against the file's modification time;
\* inm: If-None-Match is present.
Line(n, c, t, v, h) ==
    [raw |-> "line", nwords |-> n, command |-> c, target |-> t, version |-> v,
     hdr |-> h.hdr, ims |-> h.ims, inm |-> h.inm]
NoHdr == [hdr |-> "ok", ims |-> "absent", inm |-> FALSE]
Conditionals ==
    { NoHdr,
      [hdr |-> "ok", ims |-> "earlier", inm |-> FALSE],
      [hdr |-> "ok", ims |-> "not_earlier", inm |-> FALSE],
      [hdr |-> "ok", ims |-> "not_earlier", inm |-> TRUE],
      [hdr |-> "ok", ims |-> "malformed", inm |-> FALSE] }
BadHeaders ==
    { [hdr |-> e, ims |-> "absent", inm |-> FALSE] : e \in {"line_too_long", "too_many"} }
\* Every shape of request line, with every target and conditional header where
\* the handler gets as far as reading them.
Requests ==
    { [raw |-> r, nwords |-> 0, command |-> "", target |-> Root, version |-> "",
       hdr |-> "ok", ims |-> "absent", inm |-> FALSE] : r \in {"eof", "toolong"} }
    \cup { Line(0, "", Root, "", NoHdr) }
    \cup { Line(1, c, Root, "", NoHdr) : c \in Commands }
    \cup { Line(2, c, t, "", NoHdr) : c \in Commands, t \in Targets }
    \cup { Line(3, c, t, v, h) : c \in {"GET", "HEAD"}, t \in Targets,
                                 v \in {"HTTP/1.0", "HTTP/1.1", "HTTP/0.9"}, h \in Conditionals }
    \cup { Line(3, "POST", t, v, NoHdr) : t \in {Root, [parts |-> <<"nope">>, slash |-> FALSE]},
                                          v \in {"HTTP/1.0", "HTTP/1.1", "HTTP/0.9"} }
    \cup { Line(3, c, Root, v, h) : c \in Commands, v \in {"HTTP/1.0", "HTTP/1.1", "HTTP/0.9"},
                                    h \in BadHeaders }
    \cup { Line(3, c, Root, v, NoHdr) : c \in Commands, v \in {"HTTP/2.0", "HTTP/x"} }
    \cup { Line(4, c, Root, v, NoHdr) : c \in Commands, v \in Versions }

----------------------------------------------------------------------------
(* The request handler.  A handler h is a record: request_version, command, *)
(* close_connection, hb (the _headers_buffer) and wfile (what it has        *)
(* written to the socket, in order).  cls is the handler's class, which     *)
(* decides whose end_headers runs.                                          *)

NoCache == "NoCacheHTTPRequestHandler"
Stock == "SimpleHTTPRequestHandler"

\* BaseHTTPRequestHandler.protocol_version: what the status line announces
protocol_version == "HTTP/1.0"
default_request_version == "HTTP/0.9"

Header(k, v) == [t |-> "header", k |-> k, v |-> v]
StatusLine(code, message) ==
    [t |-> "status", proto |-> protocol_version, code |-> code, msg |-> message]
EndOfHeaders == [t |-> "end"]

\* responses[code][0]: the standard reason phrases
Phrase(code) ==
    CASE code = 200 -> "OK"
      [] code = 301 -> "Moved Permanently"
      [] code = 304 -> "Not Modified"
      [] code = 400 -> "Bad Request"
      [] code = 404 -> "Not Found"
      [] code = 414 -> "Request-URI Too Long"
      [] code = 431 -> "Request Header Fields Too Large"
      [] code = 501 -> "Not Implemented"
      [] code = 505 -> "HTTP Version Not Supported"
      [] OTHER -> ""

NewHandler ==
    [request_version |-> default_request_version, command |-> "None",
     close_connection |-> TRUE, hb |-> <<>>, wfile |-> <<>>]

write(h, item) == [h EXCEPT !.wfile = Append(@, item)]

send_response_only(h, code, message) ==
    IF h.request_version # "HTTP/0.9"
    THEN [h EXCEPT !.hb = Append(@, StatusLine(code, message))]
    ELSE h

send_header(h, keyword, value) ==
    LET h1 == IF h.request_version # "HTTP/0.9"
              THEN [h EXCEPT !.hb = Append(@, Header(keyword, value))]
              ELSE h
    IN IF keyword = "Connection" /\ value = "close"
       THEN [h1 EXCEPT !.close_connection = TRUE]
       ELSE h1

\* the Location header of a redirect carries the request target with "/" added
send_location(h, target) ==
    IF h.request_version # "HTTP/0.9"
    THEN [h EXCEPT !.hb = Append(@, [t |-> "header", k |-> "Location",
                                      url |-> [target EXCEPT !.slash = TRUE]])]
    ELSE h

send_response(h, code, message) ==
    send_header(send_header(send_response_only(h, code, message),
                            "Server", "SimpleHTTP/0.6"),
                "Date", "now")

flush_headers(h) == [h EXCEPT !.wfile = @ \o h.hb, !.hb = <<>>]

\* BaseHTTPRequestHandler.end_headers: ends and sends the header block, unless
\* the request is an HTTP/0.9 one, which gets no header block at all
base_end_headers(h) ==
    IF h.request_version # "HTTP/0.9"
    THEN flush_headers([h EXCEPT !.hb = Append(@, EndOfHeaders)])
    ELSE h

CacheControl == Header("Cache-Control", "no-cache, no-store, must-revalidate")
Pragma == Header("Pragma", "no-cache")
Expires == Header("Expires", "0")
AntiCache == <<CacheControl, Pragma, Expires>>

\* end_headers without the Expires header
NoCache_end_headers_no_expires(h) ==
    base_end_headers(
        send_header(
            send_header(h, "Cache-Control", "no-cache, no-store, must-revalidate"),
            "Pragma", "no-cache"))

\* end_headers that starts the header block over: the status line is kept, the
\* headers the base handler chose are lost
NoCache_end_headers_replacing(h) ==
    base_end_headers(
        send_header(
            send_header(
                send_header([h EXCEPT !.hb = IF @ = <<>> THEN @ ELSE <<@[1]>>],
                            "Cache-Control", "no-cache, no-store, must-revalidate"),
                "Pragma", "no-cache"),
            "Expires", "0"))

\* end_headers without the call of super().end_headers(): nothing ends or
\* sends the header block
NoCache_end_headers_no_super(h) ==
    send_header(
        send_header(
            send_header(h, "Cache-Control", "no-cache, no-store, must-revalidate"),
            "Pragma", "no-cache"),
        "Expires", "0")

\* end_headers that calls super().end_headers() first: the three headers are
\* buffered after the block was sent
NoCache_end_headers_after_super(h) ==
    send_header(
        send_header(
            send_header(base_end_headers(h),
                        "Cache-Control", "no-cache, no-store, must-revalidate"),
            "Pragma", "no-cache"),
        "Expires", "0")

\* NoCacheHTTPRequestHandler.end_headers
NoCache_end_headers(h) ==
    base_end_headers(
        send_header(
            send_header(
                send_header(h, "Cache-Control", "no-cache, no-store, must-revalidate"),
                "Pragma", "no-cache"),
            "Expires", "0"))

\* the override is not found (the method is misspelt): the base method runs
end_headers_not_overridden(cls, h) == base_end_headers(h)

\* self.end_headers(): the subclass's override when the handler is one
end_headers(cls, h) ==
    IF cls = NoCache THEN NoCache_end_headers(h) ELSE base_end_headers(h)

ErrorBody(code, message) == [t |-> "error_html", code |-> code, msg |-> message]

send_error(cls, h, code, message) ==
    LET h1 == send_header(send_response(h, code, message), "Connection", "close")
        body == code >= 200 /\ code \notin {204, 205, 304}
        h2 == IF body
              THEN send_header(send_header(h1, "Content-Type", "text/html;charset=utf-8"),
                               "Content-Length", "len(body)")
              ELSE h1
        h3 == end_headers(cls, h2)
    IN IF h.command # "HEAD" /\ body THEN write(h3, ErrorBody(code, message)) ELSE h3

\* the (major, minor) pair parse_request reads off the version word; <<>> when
\* the word is not "HTTP/<digits>.<digits>"
version_number(v) ==
    CASE v = "HTTP/1.0" -> <<1, 0>>
      [] v = "HTTP/1.1" -> <<1, 1>>
      [] v = "HTTP/0.9" -> <<0, 9>>
      [] v = "HTTP/2.0" -> <<2, 0>>
      [] OTHER -> <<>>

\* parse_request: [ok, h]; when not ok any error response has been written
parse_request(cls, h0, req) ==
    LET h == [h0 EXCEPT !.command = "None",
                        !.request_version = default_request_version,
                        !.close_connection = TRUE]
        vn == version_number(req.version)
        \* after the version word was accepted
        hv == IF req.nwords >= 3 THEN [h EXCEPT !.request_version = req.version] ELSE h
        hc == [hv EXCEPT !.command = req.command]
    IN
    IF req.nwords = 0 THEN [ok |-> FALSE, h |-> h]
    ELSE IF req.nwords >= 3 /\ vn = <<>>
    THEN [ok |-> FALSE, h |-> send_error(cls, h, 400, "Bad request version")]
    ELSE IF req.nwords >= 3 /\ vn[1] >= 2
    THEN [ok |-> FALSE, h |-> send_error(cls, h, 505, "Invalid HTTP version")]
    ELSE IF ~(2 <= req.nwords /\ req.nwords <= 3)
    THEN [ok |-> FALSE, h |-> send_error(cls, hv, 400, "Bad request syntax")]
    ELSE IF req.nwords = 2 /\ req.command # "GET"
    THEN [ok |-> FALSE, h |-> send_error(cls, hv, 400, "Bad HTTP/0.9 request type")]
    ELSE IF req.hdr = "line_too_long"
    THEN [ok |-> FALSE, h |-> send_error(cls, hc, 431, "Line too long")]
    ELSE IF req.hdr = "too_many"
    THEN [ok |-> FALSE, h |-> send_error(cls, hc, 431, "Too many headers")]
    ELSE [ok |-> TRUE, h |-> hc]

\* translate_path: the file-system path a request target names under the
\* handler's directory; "." and ".." never survive, the final "/" does
translate_path(directory, target) ==
    [parts |-> directory \o SelectSeq(normparts(target.parts, <<>>),
                                     LAMBDA w : w \notin {".", ".."}),
     slash |-> target.slash]

FileBody(parts) == [t |-> "file", bytes |-> FileBytes[parts]]
Listing(parts) == [t |-> "listing", names |-> listdir(parts)]

\* list_directory: [h, f], f the listing to copy out (none after an error)
list_directory(cls, h, path) ==
    IF path.parts \in Unlistable
    THEN [h |-> send_error(cls, h, 404, "No permission to list directory"), f |-> <<>>]
    ELSE [h |-> end_headers(cls,
                    send_header(
                        send_header(send_response(h, 200, Phrase(200)),
                                    "Content-type", "text/html; charset=utf-8"),
                        "Content-Length", "len(listing)")),
          f |-> <<Listing(path.parts)>>]

\* the file send_head ends up opening: the path itself, or a directory's index
index_of(path) ==
    IF isfile([parts |-> path.parts \o <<"index.html">>, slash |-> FALSE])
    THEN <<[parts |-> path.parts \o <<"index.html">>, slash |-> FALSE]>>
    ELSE IF isfile([parts |-> path.parts \o <<"index.htm">>, slash |-> FALSE])
    THEN <<[parts |-> path.parts \o <<"index.htm">>, slash |-> FALSE]>>
    ELSE <<>>

\* the part of send_head after the path is settled: 404, 304 or 200
send_file(cls, h, path, req) ==
    IF path.slash
    THEN [h |-> send_error(cls, h, 404, "File not found"), f |-> <<>>]
    ELSE IF ~canopen(path)
    THEN [h |-> send_error(cls, h, 404, "File not found"), f |-> <<>>]
    ELSE IF req.ims = "not_earlier" /\ ~req.inm
    THEN [h |-> end_headers(cls, send_response(h, 304, Phrase(304))), f |-> <<>>]
    ELSE [h |-> end_headers(cls,
                    send_header(
                        send_header(
                            send_header(send_response(h, 200, Phrase(200)),
                                        "Content-type", guess_type(path.parts)),
                            "Content-Length", str(Len(FileBytes[path.parts]))),
                        "Last-Modified", "mtime")),
          f |-> <<FileBody(path.parts)>>]

\* send_head: [h, f], the headers written and the file object to copy (or none)
send_head(cls, h, directory, req) ==
    LET path == translate_path(directory, req.target) IN
    IF isdir(path)
    THEN IF ~req.target.slash
         THEN [h |-> end_headers(cls,
                         send_header(
                             send_location(send_response(h, 301, Phrase(301)), req.target),
                             "Content-Length", "0")),
               f |-> <<>>]
         ELSE IF index_of(path) # <<>>
              THEN send_file(cls, h, index_of(path)[1], req)
              ELSE list_directory(cls, h, path)
    ELSE send_file(cls, h, path, req)

\* copyfile(f, self.wfile)
copyfile(h, f) == IF f = <<>> THEN h ELSE write(h, f[1])

do_GET(cls, h, directory, req) ==
    LET r == send_head(cls, h, directory, req) IN copyfile(r.h, r.f)

do_HEAD(cls, h, directory, req) == send_head(cls, h, directory, req).h

\* handle_one_request, from the line readline returned to the last byte written
handle_one_request(cls, directory, req) ==
    IF req.raw = "toolong"
    THEN send_error(cls, [NewHandler EXCEPT !.request_version = "", !.command = ""],
                    414, Phrase(414))
    ELSE IF req.raw = "eof"
    THEN NewHandler
    ELSE LET p == parse_request(cls, NewHandler, req) IN
         IF ~p.ok THEN p.h
         ELSE IF p.h.command = "GET" THEN do_GET(cls, p.h, directory, req)
         ELSE IF p.h.command = "HEAD" THEN do_HEAD(cls, p.h, directory, req)
         ELSE send_error(cls, p.h, 501, "Unsupported method")

----------------------------------------------------------------------------
(* The process: the module-level script, then socketserver's accept loop. *)

\* the three status lines, without their leading emoji and accents
Banner ==
    <<"Servidor iniciado en puerto 8000",
      "Accede a: http://localhost:8000",
      "Headers anti-cache activados para desarrollo">>

NoReq == [raw |-> "none"]
NoConn == [stage |-> "none", req |-> NoReq, wfile |-> <<>>]

\* ThreadingMixIn.process_request: the handler runs in a thread of its own
process_request_threaded == "select"

\* TCPServer.process_request runs finish_request itself: serve_forever is inside
\* the handler until it returns
process_request == "finish_request"

\* the exception leaves serve_forever
handler_exception_raised == "raise"

\* _handle_request_noblock, "except Exception": handle_error prints a traceback,
\* shutdown_request closes the connection, and the loop goes on
handler_exception == "continue"

\* the handler class the server was given does not override end_headers
RequestHandlerClass_stock == Stock

\* TCPServer(("", PORT), NoCacheHTTPRequestHandler): the class of every handler
RequestHandlerClass == NoCache

Init ==
    /\ pc = "chdir"
    /\ exit = "none"
    /\ launch \in Launches
    /\ cwd = launch.dir
    /\ listening = FALSE
    /\ stdout = <<>>
    /\ backlog = 0
    /\ loop = "select"
    /\ inflight = 0
    /\ conn = NoConn

\* the process ends: the with block closes the socket, the kernel drops the
\* connections the process held
Exited(why) ==
    /\ pc' = "exited"
    /\ exit' = why
    /\ listening' = FALSE
    /\ backlog' = 0
    /\ loop' = "select"
    /\ inflight' = 0
    /\ conn' = NoConn
    /\ UNCHANGED <<launch, cwd, stdout>>

\* os.path.dirname(__file__) without abspath: a relative name is not resolved
\* against the directory the process was launched from
script_directory_no_abspath(file, dir) == dirname(normparts(file.parts, <<>>))

\* os.path.dirname(os.path.abspath(__file__)), evaluated in directory dir
script_directory(file, dir) == dirname(abspath(file, dir))

\* os.chdir(os.path.dirname(os.path.abspath(__file__)))
Chdir ==
    /\ pc = "chdir"
    /\ cwd' = script_directory(launch.file, cwd)
    /\ pc' = "bind"
    /\ UNCHANGED <<exit, launch, listening, stdout, backlog, loop, inflight, conn>>

\* os.chdir raises (the directory is gone or may not be entered)
ChdirFail ==
    /\ pc = "chdir"
    /\ Exited("chdir_error")

\* socketserver.TCPServer(("", PORT), ...): bind and listen
Bind ==
    /\ pc = "bind"
    /\ listening' = TRUE
    /\ pc' = "print"
    /\ UNCHANGED <<exit, launch, cwd, stdout, backlog, loop, inflight, conn>>

\* the bind error is caught and the script goes on
BindFail_swallowed ==
    /\ pc = "bind"
    /\ pc' = "print"
    /\ UNCHANGED <<exit, launch, cwd, listening, stdout, backlog, loop, inflight, conn>>

\* server_bind raises: the port is taken, or the process may not bind
BindFail ==
    /\ pc = "bind"
    /\ \E err \in {"EADDRINUSE", "EACCES"} : Exited(err)

\* one of the three print calls
print_banner ==
    /\ pc = "print"
    /\ stdout' = Append(stdout, Banner[Len(stdout) + 1])
    /\ pc' = IF Len(stdout) + 1 = Len(Banner) THEN "serve_forever" ELSE "print"
    /\ UNCHANGED <<exit, launch, cwd, listening, backlog, loop, inflight, conn>>

\* print raises (standard output is closed, or cannot encode the line)
print_banner_fails ==
    /\ pc = "print"
    /\ Exited("print_error")

\* a client connects; the kernel queues it until the server accepts
ClientConnect ==
    /\ listening
    /\ backlog < MaxBacklog
    /\ backlog' = backlog + 1
    /\ UNCHANGED <<pc, exit, launch, cwd, listening, stdout, loop, inflight, conn>>

\* serve_forever: select reports the socket readable, get_request accepts, and
\* process_request starts the handler, which blocks in rfile.readline
Accept ==
    /\ pc = "serve_forever"
    /\ loop = "select"
    /\ backlog > 0
    /\ backlog' = backlog - 1
    /\ inflight' = inflight + 1
    /\ conn' = [stage |-> "readline", req |-> NoReq, wfile |-> <<>>]
    /\ loop' = process_request
    /\ UNCHANGED <<pc, exit, launch, cwd, listening, stdout>>

\* the handler returned or raised: shutdown_request, back to select
Returned(c) ==
    /\ conn' = c
    /\ inflight' = inflight - 1
    /\ loop' = "select"
    /\ UNCHANGED <<pc, exit, launch, cwd, listening, stdout, backlog>>

\* the client's request line arrives (or its end of file): the handler runs
\* handle_one_request to the end, and the connection is closed
ClientSend ==
    /\ pc = "serve_forever"
    /\ conn.stage = "readline"
    /\ \E req \in Requests :
         Returned([stage |-> "closed", req |-> req,
                   wfile |-> handle_one_request(RequestHandlerClass, cwd, req).wfile])

\* the client resets the connection while the handler writes: the write raises
ClientReset ==
    /\ pc = "serve_forever"
    /\ conn.stage = "readline"
    /\ IF handler_exception = "continue"
       THEN Returned([stage |-> "aborted", req |-> NoReq, wfile |-> <<>>])
       ELSE Exited("exception")

\* SIGINT, SIGTERM, SIGKILL: the only way out of a running process
Interrupt ==
    /\ pc # "exited"
    /\ \E sig \in {"SIGINT", "SIGTERM", "SIGKILL"} : Exited(sig)

Next ==
    \/ Chdir
    \/ ChdirFail
    \/ Bind
    \/ BindFail
    \/ print_banner
    \/ print_banner_fails
    \/ ClientConnect
    \/ Accept
    \/ ClientSend
    \/ ClientReset
    \/ Interrupt

Spec == Init /\ [][Next]_vars

----------------------------------------------------------------------------
(* Reading a response off the bytes written to the socket. *)

\* the server finished a connection and wrote something to it
Sent == pc = "serve_forever" /\ conn.stage = "closed" /\ conn.wfile # <<>>

HasHeaderBlock(w) == \E i \in 1..Len(w) : w[i] = EndOfHeaders
EndPos(w) == CHOOSE i \in 1..Len(w) : w[i] = EndOfHeaders
\* the status code of the status line; 0 when the response has none
Status(w) == IF w # <<>> /\ w[1].t = "status" THEN w[1].code ELSE 0
HeadersOf(w) == SelectSeq(w, LAMBDA x : x.t = "header")
BodyOf(w) == SelectSeq(w, LAMBDA x : x.t \in {"file", "listing", "error_html"})
Count(w, x) == Cardinality({ i \in 1..Len(w) : w[i] = x })
CarriesAntiCache(w) ==
    HasHeaderBlock(w) /\ \A a \in {CacheControl, Pragma, Expires} :
                             \E i \in 1..(EndPos(w) - 1) : w[i] = a

\* the request's version word was accepted and is not HTTP/0.9, or the line was
\* too long to be looked at: the handler answers with a status line and headers
VersionAccepted(req) ==
    \/ req.raw = "toolong"
    \/ req.raw = "line" /\ req.nwords >= 3 /\ req.version \in {"HTTP/1.0", "HTTP/1.1"}

\* what an HTTP/1.x client sends: a three-word request line with version
\* HTTP/1.0 or HTTP/1.1, and a header block that parses
WellFormed(req) ==
    /\ req.raw = "line"
    /\ req.nwords = 3
    /\ req.version \in {"HTTP/1.0", "HTTP/1.1"}
    /\ req.hdr = "ok"

\* the server answered a well-formed GET
AnsweredGet ==
    /\ pc = "serve_forever"
    /\ conn.stage = "closed"
    /\ WellFormed(conn.req)
    /\ conn.req.command = "GET"

Resolved(req) == translate_path(cwd, req.target)
NamesNothing(req) ==
    Resolved(req).parts \notin Dirs /\ Resolved(req).parts \notin DOMAIN FileBytes
\* an existing file the server may read, named as a file (no trailing "/")
NamesFile(req) ==
    /\ Resolved(req).parts \in DOMAIN FileBytes
    /\ Resolved(req).parts \notin Unreadable
    /\ ~req.target.slash
NamesDir(req) == Resolved(req).parts \in Dirs
\* If-Modified-Since is satisfied: the handler answers 304 instead of the file
NotModified(req) == req.ims = "not_earlier" /\ ~req.inm

----------------------------------------------------------------------------
(* C1 *)

\* C1 as stated: every response the server sends, whatever the request and the
\* status, carries the three anti-cache headers with their literal values.
C1_EveryResponseCarriesAntiCache ==
    Sent => CarriesAntiCache(conn.wfile)

\* C1, amended: every response to a request whose version word was accepted as
\* HTTP/1.x (or whose line was too long) has a header block carrying the three
\* anti-cache headers, whatever its status; every other response is sent
\* without a status line or any header.
C1_AntiCacheOnEveryHeaderBlock ==
    Sent =>
        IF VersionAccepted(conn.req)
        THEN Status(conn.wfile) # 0 /\ CarriesAntiCache(conn.wfile)
        ELSE Status(conn.wfile) = 0 /\ HeadersOf(conn.wfile) = <<>>
                /\ ~HasHeaderBlock(conn.wfile)

C1_Witness ==
    Sent /\ VersionAccepted(conn.req) /\ Status(conn.wfile) = 501
         /\ CarriesAntiCache(conn.wfile)

----------------------------------------------------------------------------
(* C2 *)

\* C2: the response of NoCacheHTTPRequestHandler with the three anti-cache
\* headers deleted is, item for item, the response SimpleHTTPRequestHandler
\* gives to the same request: same status line, same headers in the same
\* order, same body.
C2_InjectionIsAdditive ==
    (pc = "serve_forever" /\ conn.stage = "closed") =>
        SelectSeq(conn.wfile, LAMBDA x : x \notin {CacheControl, Pragma, Expires})
            = handle_one_request(Stock, cwd, conn.req).wfile

C2_Witness ==
    /\ Sent
    /\ Status(conn.wfile) = 200
    /\ Len(conn.wfile) = Len(handle_one_request(Stock, cwd, conn.req).wfile) + 3

----------------------------------------------------------------------------
(* C3 *)

----------------------------------------------------------------------------
(* C4 *)

\* C4 as stated: every well-formed GET of an existing file, conditional headers
\* or not, is answered with status 200 and the file's bytes as the body.
C4_ExistingFileIs200WithBytes ==
    (AnsweredGet /\ NamesFile(conn.req)) =>
        /\ Status(conn.wfile) = 200
        /\ BodyOf(conn.wfile) = <<FileBody(Resolved(conn.req).parts)>>

\* C4, amended: a well-formed GET of an existing readable file is answered with
\* status 200 and the file's bytes unmodified, unless it carries an
\* If-Modified-Since date not earlier than the file's modification time and no
\* If-None-Match: then the answer is 304 with no body.
C4_ExistingFileUnlessNotModified ==
    (AnsweredGet /\ NamesFile(conn.req)) =>
        IF NotModified(conn.req)
        THEN Status(conn.wfile) = 304 /\ BodyOf(conn.wfile) = <<>>
        ELSE /\ Status(conn.wfile) = 200
             /\ BodyOf(conn.wfile) = <<FileBody(Resolved(conn.req).parts)>>
             /\ conn.wfile[Len(conn.wfile)].bytes = FileBytes[Resolved(conn.req).parts]

C4_Witness ==
    /\ AnsweredGet
    /\ conn.req.target = [parts |-> <<"..", "app.css">>, slash |-> FALSE]
    /\ conn.req.ims = "not_earlier" /\ conn.req.inm
    /\ Status(conn.wfile) = 200
    /\ BodyOf(conn.wfile) = <<[t |-> "file", bytes |-> <<97, 123, 125, 10>>]>>

----------------------------------------------------------------------------
(* C5 *)

\* the index file send_head would serve for the directory a request names
IndexOf(req) == index_of(Resolved(req))

\* a directory the handler can show: it has a readable index file, or it has
\* none and can be listed
Showable(req) ==
    /\ NamesDir(req)
    /\ IF IndexOf(req) # <<>> THEN canopen(IndexOf(req)[1])
       ELSE Resolved(req).parts \notin Unlistable

ShownBody(req) ==
    IF IndexOf(req) # <<>>
    THEN <<FileBody(IndexOf(req)[1].parts)>>
    ELSE <<Listing(Resolved(req).parts)>>

\* C5 as stated: every well-formed GET of a directory, with or without a
\* trailing "/", is answered with status 200, the directory listing or the
\* index file, and the three anti-cache headers.
C5_DirectoryIs200 ==
    (AnsweredGet /\ Showable(conn.req) /\ ~NotModified(conn.req)) =>
        /\ Status(conn.wfile) = 200
        /\ CarriesAntiCache(conn.wfile)
        /\ BodyOf(conn.wfile) = ShownBody(conn.req)

\* C5, amended: a well-formed GET of a directory (one whose index file, if it
\* has one, is readable and not answered 304, and which can be listed if it
\* has none) is answered with the three anti-cache headers and, when the
\* target ends in "/", status 200 and the index file or, without one, the
\* listing; when the target does not end in "/", with status 301, a Location
\* of the target plus "/", and no body.
C5_DirectoryWithSlashIs200 ==
    (AnsweredGet /\ Showable(conn.req) /\ ~NotModified(conn.req)) =>
        /\ CarriesAntiCache(conn.wfile)
        /\ IF conn.req.target.slash
           THEN /\ Status(conn.wfile) = 200
                /\ BodyOf(conn.wfile) = ShownBody(conn.req)
           ELSE /\ Status(conn.wfile) = 301
                /\ BodyOf(conn.wfile) = <<>>
                /\ \E i \in 1..Len(conn.wfile) :
                      conn.wfile[i] = [t |-> "header", k |-> "Location",
                                       url |-> [parts |-> conn.req.target.parts,
                                                slash |-> TRUE]]

C5_Witness ==
    /\ AnsweredGet
    /\ conn.req.target = [parts |-> <<"docs">>, slash |-> TRUE]
    /\ Status(conn.wfile) = 200
    /\ CarriesAntiCache(conn.wfile)
    /\ BodyOf(conn.wfile) = <<[t |-> "listing", names |-> <<"app.css">>]>>

----------------------------------------------------------------------------
(* C10 *)

\* the three anti-cache headers are the last three lines of the header block,
\* in order, each once in the whole response, and no body item precedes them
AntiCacheClosesHeaderBlock(w) ==
    /\ HasHeaderBlock(w)
    /\ EndPos(w) >= 5
    /\ SubSeq(w, EndPos(w) - 3, EndPos(w) - 1) = AntiCache
    /\ \A a \in {CacheControl, Pragma, Expires} : Count(w, a) = 1
    /\ Count(w, EndOfHeaders) = 1
    /\ \A i \in 1..EndPos(w) : w[i].t \in {"status", "header", "end"}
    /\ \A i \in (EndPos(w) + 1)..Len(w) : w[i].t \in {"file", "listing", "error_html"}

\* C10 as stated: in every response the three anti-cache headers occur exactly
\* once each and are the last three headers of the header block, in the order
\* Cache-Control, Pragma, Expires, before the block ends and before any body.
C10_AntiCacheLastInEveryResponse ==
    Sent => AntiCacheClosesHeaderBlock(conn.wfile)

\* C10, amended: in every response that has a header block (those to requests
\* whose version word was accepted as HTTP/1.x or whose line was too long) the
\* three anti-cache headers occur exactly once each and are the last three
\* headers, in the order Cache-Control, Pragma, Expires, before the block ends
\* and before any body; a response without a header block holds none of them.
C10_AntiCacheLastInHeaderBlock ==
    Sent =>
        IF VersionAccepted(conn.req)
        THEN AntiCacheClosesHeaderBlock(conn.wfile)
        ELSE \A i \in 1..Len(conn.wfile) : conn.wfile[i].t \notin {"status", "header", "end"}

C10_Witness ==
    /\ Sent /\ VersionAccepted(conn.req)
    /\ Status(conn.wfile) = 200
    /\ AntiCacheClosesHeaderBlock(conn.wfile)
    /\ Len(conn.wfile) = EndPos(conn.wfile) + 1
    /\ conn.wfile[Len(conn.wfile)].t = "file"

----------------------------------------------------------------------------
(* C6 *)

\* C6: whenever the socket is bound or the server is serving, the working
\* directory is the directory of the entry-point file, whatever directory the
\* process was launched from and however the script was named.
C6_ServesFromScriptDirectory ==
    (listening \/ pc = "serve_forever") => cwd = ScriptDir /\ cwd = dirname(ScriptFile)

C6_Witness ==
    /\ pc = "serve_forever"
    /\ listening
    /\ launch.dir = <<"srv", "app", "docs">>
    /\ ~launch.file.abs
    /\ cwd = ScriptDir
    /\ conn.stage = "closed"

----------------------------------------------------------------------------
(* C7 *)

StartupFailures == {"chdir_error", "EADDRINUSE", "EACCES"}

\* C7: a startup failure ends the process on the spot, from the chdir or the
\* bind step, with the socket unbound and nothing written to standard output;
\* an ended process takes no further step; serve_forever is entered only from
\* the last print, with the directory changed and the socket bound; and a
\* connection is accepted only while serving.
C7_StartupFailureIsFatal ==
    [][ /\ pc # "exited"
        /\ exit' \in StartupFailures =>
              /\ pc \in {"chdir", "bind"}
              /\ pc' = "exited"
              /\ ~listening /\ ~listening'
              /\ stdout' = <<>>
              /\ conn' = NoConn /\ inflight' = 0
        /\ (pc' = "serve_forever" /\ pc # "serve_forever") =>
              /\ pc = "print"
              /\ exit' = "none"
              /\ listening'
              /\ cwd' = ScriptDir
              /\ stdout' = Banner
        /\ conn' # conn => pc = "serve_forever"
      ]_vars

C7_Witness ==
    pc = "exited" /\ exit = "EADDRINUSE" /\ cwd = ScriptDir /\ cwd # launch.dir
        /\ stdout = <<>> /\ ~listening

----------------------------------------------------------------------------
(* C8 *)

Signals == {"SIGINT", "SIGTERM", "SIGKILL"}

\* C8: the server leaves serve_forever only by an external signal, and after
\* every connection it handled, whether answered or aborted, it is back in
\* select on the listening socket.
C8_ServingUntilSignalled ==
    /\ [][(pc = "serve_forever" /\ pc' # "serve_forever") => exit' \in Signals]_vars
    /\ []((pc = "serve_forever" /\ conn.stage \in {"closed", "aborted"}) =>
              (listening /\ loop = "select" /\ inflight = 0 /\ exit = "none"))

C8_Witness ==
    /\ pc = "serve_forever"
    /\ conn.stage = "aborted"
    /\ loop = "select"
    /\ backlog > 0
    /\ ENABLED Accept

----------------------------------------------------------------------------
(* C9 *)

\* C9: at most one connection is in a handler at any time, and while one is,
\* whatever its client does or does not send, the server accepts no other:
\* the clients behind it wait.
C9_OneConnectionAtATime ==
    /\ inflight \in {0, 1}
    /\ inflight = 1 <=> (pc = "serve_forever" /\ conn.stage = "readline")
    /\ inflight = 1 => (loop = "finish_request" /\ ~ENABLED Accept)

C9_Witness ==
    /\ conn.stage = "readline"
    /\ inflight = 1
    /\ backlog = MaxBacklog
    /\ ~ENABLED Accept

====
